---- MODULE Spec2Model ----
(***************************************************************************)
(* State-machine model of lokal-js (src/lokal.ts): the Lokal API client    *)
(* (request, isValidVersion) and the Tunnel builder/handle (setters,       *)
(* create, getLANAddress, getPublicAddress, updatePublicURLPort).          *)
(*                                                                         *)
(* JavaScript strings that the code inspects character by character        *)
(* (addresses, the version header) are sequences of one-character strings. *)
(* Strings the code only tests for truthiness or copies (id, name,         *)
(* messages, error texts) are TLA+ strings, "" standing for every falsy    *)
(* value.                                                                  *)
(*                                                                         *)
(* Left out: the client's baseURL, basicAuth and token (they only shape    *)
(* the request headers), the fields server_id, address_tunnel and          *)
(* address_tunnel_port (never assigned), and ignoreDuplicateFlag,          *)
(* startupBannerFlag and showBanner, whose only effect is console output.  *)
(* response.json() is taken to succeed: bodies are well-formed JSON.       *)
(***************************************************************************)
EXTENDS Integers, Sequences, FiniteSets, TLC

VARIABLES tunnel, fetchCalls, lastResp, lastReq, lastOp, prev, createdOk,
          ver, verResult

vars == <<tunnel, fetchCalls, lastResp, lastReq, lastOp, prev, createdOk,
          ver, verResult>>

(***************************************************************************)
(* Bounds of the model.                                                    *)
(***************************************************************************)
\* number of fetch calls after which the model issues no further request
MaxRequests == 2
\* LAN names passed to setLANAddress carry 0..MaxSuffix trailing ".local"
MaxSuffix == 2
\* version components drawn from 0..MaxComponent
MaxComponent == 11

(***************************************************************************)
(* JavaScript values.                                                      *)
(***************************************************************************)
\* undefined / null where a character string is expected
Undef == <<"undefined">>

Str1(a) == <<a>>
DotLocal == <<".", "l", "o", "c", "a", "l">>
Colon == ":"

\* !x for a string-or-undefined x
Falsy(x) == x = Undef \/ x = <<>>

\* String.prototype.endsWith
EndsWith(s, suf) ==
    /\ Len(s) >= Len(suf)
    /\ SubSeq(s, Len(s) - Len(suf) + 1, Len(s)) = suf

\* String.prototype.includes, for a one-character needle
Includes(s, c) == \E i \in 1..Len(s) : s[i] = c

StripLocal_keep(s) == s

\* lanAddress.replace(/\.local$/, '')
StripLocal(s) ==
    IF EndsWith(s, DotLocal) THEN SubSeq(s, 1, Len(s) - Len(DotLocal)) ELSE s

(***************************************************************************)
(* Lokal.isValidVersion                                                    *)
(***************************************************************************)
ServerMinVersion == <<"0", ".", "6", ".", "0">>

\* Number(x) of a non-numeric string, and of a missing array element in a
\* relational comparison; an integer outside the range of DecimalValue
NaN == 0 - 1

DigitChars == <<"0", "1", "2", "3", "4", "5", "6", "7", "8", "9">>
IsDigit(c) == \E d \in 1..10 : DigitChars[d] = c
DigitVal(c) == (CHOOSE d \in 1..10 : DigitChars[d] = c) - 1

RECURSIVE DecimalValue(_)
DecimalValue(s) ==
    IF s = <<>> THEN 0
    ELSE 10 * DecimalValue(SubSeq(s, 1, Len(s) - 1)) + DigitVal(s[Len(s)])

\* Number(s): "" is 0, a run of decimal digits is its value, anything else NaN
Number(s) ==
    IF \A i \in 1..Len(s) : IsDigit(s[i]) THEN DecimalValue(s) ELSE NaN

\* s.split('.')
RECURSIVE Split(_)
Split(s) ==
    IF ~Includes(s, ".") THEN <<s>>
    ELSE LET i == CHOOSE k \in 1..Len(s) :
                      s[k] = "." /\ \A j \in 1..(k - 1) : s[j] # "."
         IN  <<SubSeq(s, 1, i - 1)>> \o Split(SubSeq(s, i + 1, Len(s)))

\* version.split('.').map(Number)
ParseVersion(s) == LET parts == Split(s)
                   IN  [i \in 1..Len(parts) |-> Number(parts[i])]

\* destructuring [major, minor, patch]: a missing element is undefined, NaN
\* when compared
Component(parts, i) == IF i <= Len(parts) THEN parts[i] ELSE NaN

\* a > b, a < b, a >= b on numbers: false when either side is NaN
JsGt(a, b) == a # NaN /\ b # NaN /\ a > b
JsLt(a, b) == a # NaN /\ b # NaN /\ a < b
JsGe(a, b) == a # NaN /\ b # NaN /\ a >= b

PatchOk_strict(patch, minPatch) == JsGt(patch, minPatch)

PatchOk(patch, minPatch) == JsGe(patch, minPatch)

isValidVersion(version) ==
    LET v == ParseVersion(version)
        m == ParseVersion(ServerMinVersion)
        major == Component(v, 1)
        minor == Component(v, 2)
        patch == Component(v, 3)
        minMajor == Component(m, 1)
        minMinor == Component(m, 2)
        minPatch == Component(m, 3)
    IN  IF JsGt(major, minMajor) THEN TRUE
        ELSE IF JsLt(major, minMajor) THEN FALSE
        ELSE IF JsGt(minor, minMinor) THEN TRUE
        ELSE IF JsLt(minor, minMinor) THEN FALSE
        ELSE PatchOk(patch, minPatch)

(***************************************************************************)
(* The daemon's answers, as the transport hands them to Lokal.request.     *)
(***************************************************************************)
NoId == ""
NoMessage == ""

HostNoPort == <<"h">>
HostWithPort == <<"h", ":", "8">>

\* entries of a response's data list
LanName == <<"a">>
EntryPending == [id |-> "abc", address_public |-> HostNoPort, address_mdns |-> LanName]
EntryReady == [id |-> "abc", address_public |-> HostWithPort, address_mdns |-> LanName]
EntryNoPublic == [id |-> "abc", address_public |-> Undef, address_mdns |-> LanName]
EntryNoLan == [id |-> "abc", address_public |-> HostWithPort, address_mdns |-> Undef]
EntryOther == [id |-> "xyz", address_public |-> HostNoPort, address_mdns |-> Undef]

Entries == {EntryPending, EntryReady, EntryNoPublic, EntryNoLan}

Body(success, message, data) ==
    [success |-> success, message |-> message, data |-> data]

NoBody == Body(FALSE, NoMessage, <<>>)

\* parsed JSON bodies: { success, message?, data }
BodiesAccepted ==
    {Body(TRUE, NoMessage, <<e>>) : e \in Entries}
    \cup {Body(TRUE, NoMessage, <<EntryReady, EntryOther>>)}
BodiesRefused ==
    {Body(TRUE, NoMessage, <<>>), Body(FALSE, NoMessage, <<>>),
     Body(FALSE, "denied", <<>>), Body(FALSE, NoMessage, <<EntryReady>>)}

\* values of the Lokal-Server-Version header; Undef when the header is absent
VersionMin == <<"0", ".", "6", ".", "0">>
VersionOld == <<"0", ".", "5", ".", "9">>
VersionNew == <<"1", ".", "0", ".", "0">>

Response(connected, version, ok, body) ==
    [connected |-> connected, version |-> version, ok |-> ok, body |-> body]

\* what the transport can hand back for one fetch
Responses ==
    {Response(FALSE, Undef, FALSE, NoBody)}
    \cup {Response(TRUE, v, TRUE, Body(TRUE, NoMessage, <<EntryReady>>)) :
            v \in {Undef, VersionOld}}
    \cup {Response(TRUE, v, FALSE, Body(FALSE, "denied", <<>>)) :
            v \in {Undef, VersionOld}}
    \cup {Response(TRUE, VersionMin, FALSE, b) :
            b \in {Body(FALSE, "denied", <<>>), Body(FALSE, NoMessage, <<>>)}}
    \cup {Response(TRUE, VersionMin, TRUE, b) : b \in BodiesAccepted \cup BodiesRefused}
    \cup {Response(TRUE, VersionNew, TRUE, Body(TRUE, NoMessage, <<EntryPending>>))}

NoResp == Response(FALSE, Undef, FALSE, NoBody)

(***************************************************************************)
(* Error messages                                                          *)
(***************************************************************************)
ErrVersion == "Your local client might be outdated, please update"
ErrGeneric == "An error occurred"
ErrNoAddress == "Please enable either LAN address or random/custom public URL"
ErrCreate == "Tunnel creation failing"
ErrNoLAN == "LAN address is not being set"
ErrNoPublic == "Public address is not requested by client"
ErrNotAssigned ==
    "Tunnel is using a random port, but it has not been assigned yet. Please try again later"
ErrNoId == "Tunnel ID is not set"
ErrNoInfo == "Could not get tunnel info"
ErrNoPort == "Could not get assigned port"
\* reading a property of undefined
TypeError == "TypeError"
NoError == ""

(***************************************************************************)
(* Lokal.request: the outcome of one call, given what the transport did.   *)
(* steps lists the stages the call went through.                           *)
(***************************************************************************)
\* what a call that reached fetch() reports: the call's method and endpoint,
\* the stages it went through, and how it ended
Outcome(kind, error, data, steps) ==
    [kind |-> kind, error |-> error, data |-> data, steps |-> steps]

TransportFailure_throws == Outcome("throw", "fetch failed", NoBody, <<"fetch">>)

\* catch (error) { console.error(...); return; }
TransportFailure == Outcome("undefined", NoError, NoBody, <<"fetch">>)

VersionRejected_presentOnly(serverVersion) ==
    serverVersion # Undef /\ ~isValidVersion(serverVersion)

\* !serverVersion || !this.isValidVersion(serverVersion)
VersionRejected(serverVersion) ==
    Falsy(serverVersion) \/ ~isValidVersion(serverVersion)

request(resp) ==
    IF ~resp.connected THEN TransportFailure
    ELSE IF VersionRejected(resp.version)
    THEN Outcome("throw", ErrVersion, NoBody, <<"fetch", "version">>)
    ELSE IF ~resp.ok
    THEN Outcome("throw",
                 IF resp.body.message # NoMessage THEN resp.body.message
                 ELSE ErrGeneric,
                 NoBody, <<"fetch", "version", "json", "status">>)
    ELSE Outcome("data", NoError, resp.body, <<"fetch", "version", "json", "status">>)

\* a request as the transport sees it, with its outcome
Call(method, endpoint, r) ==
    [method |-> method, endpoint |-> endpoint, kind |-> r.kind, error |-> r.error,
     data |-> r.data, steps |-> r.steps]

NoReq == Call("-", <<>>, Outcome("none", NoError, NoBody, <<>>))

(***************************************************************************)
(* Tunnel                                                                  *)
(***************************************************************************)
TunnelTypes == {"HTTP", "TCP", "UDP"}

StartEndpoint == <<"/api/tunnel/start">>
InfoEndpoint(id) == <<"/api/tunnel/info/", id>>

\* new Tunnel(lokal): the field initialisers of the class
NewTunnel ==
    [id |-> NoId, name |-> <<>>, tunnel_type |-> "HTTP", local_address |-> <<>>,
     address_public |-> Undef, address_mdns |-> Undef, inspect |-> FALSE,
     options |-> "{}"]

\* what an operation reports to its caller
Returned(op, arg, value) ==
    [op |-> op, arg |-> arg, outcome |-> "return", error |-> NoError, value |-> value]
Threw(op, arg, error) ==
    [op |-> op, arg |-> arg, outcome |-> "throw", error |-> error, value |-> Undef]

NoOp == [op |-> "new", arg |-> Undef, outcome |-> "return", error |-> NoError,
         value |-> Undef]
NoPrev == [op |-> "-", arg |-> Undef, error |-> NoError]

\* prev, as a getter sets it: the call it comes directly after, when that call
\* is op
Follows(op) ==
    IF lastOp.op = op THEN [op |-> op, arg |-> lastOp.arg, error |-> lastOp.error]
    ELSE NoPrev

\* arguments the callers pass
LanNames(k) ==
    LET rep[n \in 0..k] == IF n = 0 THEN <<>> ELSE rep[n - 1] \o DotLocal
    IN  {base \o rep[n] : base \in {<<>>, LanName}, n \in 0..k} \cup {Undef}
PublicNames == {Undef, <<>>, HostNoPort, HostWithPort}
Names == {Undef, <<"n">>}
LocalAddresses == {<<"l">>}

\* an operation that issues no request and is no getter
Quiet == /\ UNCHANGED <<fetchCalls, createdOk, ver, verResult>>
         /\ lastResp' = NoResp
         /\ lastReq' = NoReq
         /\ prev' = NoPrev

setLocalAddress ==
    \E localAddress \in LocalAddresses :
        /\ tunnel' = [tunnel EXCEPT !.local_address = localAddress]
        /\ lastOp' = Returned("setLocalAddress", Undef, Undef)
        /\ Quiet

setTunnelType ==
    \E tunnelType \in TunnelTypes :
        /\ tunnel' = [tunnel EXCEPT !.tunnel_type = tunnelType]
        /\ lastOp' = Returned("setTunnelType", Undef, Undef)
        /\ Quiet

setInspection ==
    \E inspect \in BOOLEAN :
        /\ tunnel' = [tunnel EXCEPT !.inspect = inspect]
        /\ lastOp' = Returned("setInspection", Undef, Undef)
        /\ Quiet

setLANAddress ==
    \E lanAddress \in LanNames(MaxSuffix) :
        LET stored == IF ~Falsy(lanAddress) THEN StripLocal(lanAddress) ELSE <<>>
        IN  /\ tunnel' = [tunnel EXCEPT !.address_mdns = stored]
            /\ lastOp' = Returned("setLANAddress", lanAddress, Undef)
            /\ Quiet

setPublicAddress ==
    \E publicAddress \in PublicNames :
        LET stored == IF ~Falsy(publicAddress) THEN publicAddress ELSE <<>>
        IN  /\ tunnel' = [tunnel EXCEPT !.address_public = stored]
            /\ lastOp' = Returned("setPublicAddress", publicAddress, Undef)
            /\ Quiet

setName ==
    \E name \in Names :
        /\ tunnel' = [tunnel EXCEPT !.name = IF ~Falsy(name) THEN name ELSE <<>>]
        /\ lastOp' = Returned("setName", Undef, Undef)
        /\ Quiet

\* if (!this.address_mdns && !this.address_public) throw ...
CreateRefused_strictEmpty(t) == t.address_mdns = <<>> /\ t.address_public = <<>>

CreateRefused(t) == Falsy(t.address_mdns) /\ Falsy(t.address_public)

\* the three assignments from response.data[0]
Adopt_keepLAN(t, entry) ==
    [t EXCEPT !.address_public = entry.address_public, !.id = entry.id]

Adopt(t, entry) ==
    [t EXCEPT !.address_public = entry.address_public,
              !.address_mdns = entry.address_mdns,
              !.id = entry.id]

\* create() once the precondition has passed, r being what request() gave
createResult_adoptFirst(t, r) ==
    IF r.kind = "throw" THEN [tunnel |-> t, error |-> r.error]
    ELSE IF r.kind = "undefined" THEN [tunnel |-> t, error |-> TypeError]
    ELSE IF Len(r.data.data) = 0
    THEN [tunnel |-> t,
          error |-> IF r.data.message # NoMessage THEN r.data.message ELSE ErrCreate]
    ELSE IF ~r.data.success
    THEN [tunnel |-> Adopt(t, r.data.data[1]),
          error |-> IF r.data.message # NoMessage THEN r.data.message ELSE ErrCreate]
    ELSE [tunnel |-> Adopt(t, r.data.data[1]), error |-> NoError]

createResult(t, r) ==
    IF r.kind = "throw" THEN [tunnel |-> t, error |-> r.error]
    ELSE IF r.kind = "undefined" THEN [tunnel |-> t, error |-> TypeError]
    ELSE IF ~r.data.success \/ Len(r.data.data) = 0
    THEN [tunnel |-> t,
          error |-> IF r.data.message # NoMessage THEN r.data.message ELSE ErrCreate]
    ELSE [tunnel |-> Adopt(t, r.data.data[1]), error |-> NoError]

create ==
    IF CreateRefused(tunnel)
    THEN /\ lastOp' = Threw("create", Undef, ErrNoAddress)
         /\ UNCHANGED tunnel
         /\ Quiet
    ELSE /\ fetchCalls < MaxRequests
         /\ \E resp \in Responses :
              LET r == request(resp)
                  c == createResult(tunnel, r)
              IN  /\ fetchCalls' = fetchCalls + 1
                  /\ lastResp' = resp
                  /\ lastReq' = Call("POST", StartEndpoint, r)
                  /\ tunnel' = c.tunnel
                  /\ lastOp' = IF c.error = NoError
                               THEN Returned("create", Undef, Undef)
                               ELSE Threw("create", Undef, c.error)
                  /\ createdOk' = (createdOk \/ c.error = NoError)
         /\ prev' = NoPrev
         /\ UNCHANGED <<ver, verResult>>

\* if (!this.address_mdns) throw ...
LanMissing_undefinedOnly(t) == t.address_mdns = Undef

LanMissing(t) == Falsy(t.address_mdns)

\* address_mdns.endsWith('.local') ? address_mdns : `${address_mdns}.local`
LanAddressOf(mdns) == IF EndsWith(mdns, DotLocal) THEN mdns ELSE mdns \o DotLocal

getLANAddress ==
    /\ lastOp' = IF LanMissing(tunnel)
                 THEN Threw("getLANAddress", Undef, ErrNoLAN)
                 ELSE Returned("getLANAddress", Undef, LanAddressOf(tunnel.address_mdns))
    /\ prev' = Follows("setLANAddress")
    /\ lastResp' = NoResp
    /\ lastReq' = NoReq
    /\ UNCHANGED <<tunnel, fetchCalls, createdOk, ver, verResult>>

\* if (!tunnel.address_public.includes(':')) throw ...
PortMissing_never(address) == FALSE

PortMissing(address) == ~Includes(address, Colon)

\* if (!this.id) throw ...
IdMissing(t) == t.id = NoId

updatePublicURLPort_noStore(t, r) ==
    IF r.kind = "throw" THEN [tunnel |-> t, error |-> r.error]
    ELSE IF r.kind = "undefined" THEN [tunnel |-> t, error |-> TypeError]
    ELSE IF ~r.data.success \/ Len(r.data.data) = 0
    THEN [tunnel |-> t, error |-> ErrNoInfo]
    ELSE LET entry == r.data.data[1]
         IN  IF entry.address_public = Undef
             THEN [tunnel |-> t, error |-> TypeError]
             ELSE IF PortMissing(entry.address_public)
             THEN [tunnel |-> t, error |-> ErrNoPort]
             ELSE [tunnel |-> t, error |-> NoError]

\* updatePublicURLPort() once the id check has passed, r being what request()
\* gave
updatePublicURLPort(t, r) ==
    IF r.kind = "throw" THEN [tunnel |-> t, error |-> r.error]
    ELSE IF r.kind = "undefined" THEN [tunnel |-> t, error |-> TypeError]
    ELSE IF ~r.data.success \/ Len(r.data.data) = 0
    THEN [tunnel |-> t, error |-> ErrNoInfo]
    ELSE LET entry == r.data.data[1]
         IN  IF entry.address_public = Undef
             THEN [tunnel |-> t, error |-> TypeError]
             ELSE IF PortMissing(entry.address_public)
             THEN [tunnel |-> t, error |-> ErrNoPort]
             ELSE [tunnel |-> [t EXCEPT !.address_public = entry.address_public],
                   error |-> NoError]

\* this.tunnel_type !== 'HTTP' && !this.address_public.includes(':')
PortPending(t) == t.tunnel_type # "HTTP" /\ ~Includes(t.address_public, Colon)

getPublicAddress ==
    /\ prev' = Follows("getPublicAddress")
    /\ UNCHANGED <<createdOk, ver, verResult>>
    /\ IF Falsy(tunnel.address_public)
       THEN /\ lastOp' = Threw("getPublicAddress", Undef, ErrNoPublic)
            /\ lastResp' = NoResp
            /\ lastReq' = NoReq
            /\ UNCHANGED <<tunnel, fetchCalls>>
       ELSE IF ~PortPending(tunnel)
       THEN /\ lastOp' = Returned("getPublicAddress", Undef, tunnel.address_public)
            /\ lastResp' = NoResp
            /\ lastReq' = NoReq
            /\ UNCHANGED <<tunnel, fetchCalls>>
       ELSE IF IdMissing(tunnel)
       THEN /\ lastOp' = Threw("getPublicAddress", Undef, ErrNoId)
            /\ lastResp' = NoResp
            /\ lastReq' = NoReq
            /\ UNCHANGED <<tunnel, fetchCalls>>
       ELSE /\ fetchCalls < MaxRequests
            /\ \E resp \in Responses :
                 LET r == request(resp)
                     u == updatePublicURLPort(tunnel, r)
                 IN  /\ fetchCalls' = fetchCalls + 1
                     /\ lastResp' = resp
                     /\ lastReq' = Call("GET", InfoEndpoint(tunnel.id), r)
                     /\ tunnel' = u.tunnel
                     /\ lastOp' = Threw("getPublicAddress", Undef,
                                        IF u.error = NoError THEN ErrNotAssigned
                                        ELSE u.error)

(***************************************************************************)
(* The handle and its client                                               *)
(***************************************************************************)
Init ==
    /\ tunnel = NewTunnel
    /\ fetchCalls = 0
    /\ lastResp = NoResp
    /\ lastReq = NoReq
    /\ lastOp = NoOp
    /\ prev = NoPrev
    /\ createdOk = FALSE
    /\ ver = <<0, 0, 0>>
    /\ verResult = "none"

Next ==
    \/ setLocalAddress
    \/ setTunnelType
    \/ setInspection
    \/ setLANAddress
    \/ setPublicAddress
    \/ setName
    \/ create
    \/ getLANAddress
    \/ getPublicAddress

Spec == Init /\ [][Next]_vars

(***************************************************************************)
(* isValidVersion on its own: every version "M.m.p" with components in     *)
(* 0..MaxComponent is written out in decimal and handed to isValidVersion. *)
(***************************************************************************)
RECURSIVE Decimal(_)
Decimal(n) ==
    IF n < 10 THEN <<DigitChars[n + 1]>>
    ELSE Decimal(n \div 10) \o <<DigitChars[(n % 10) + 1]>>

VersionString(t) ==
    Decimal(t[1]) \o <<".">> \o Decimal(t[2]) \o <<".">> \o Decimal(t[3])

InitVersion ==
    /\ tunnel = NewTunnel
    /\ fetchCalls = 0
    /\ lastResp = NoResp
    /\ lastReq = NoReq
    /\ lastOp = NoOp
    /\ prev = NoPrev
    /\ createdOk = FALSE
    /\ ver \in (0..MaxComponent) \X (0..MaxComponent) \X (0..MaxComponent)
    /\ verResult = "none"

checkVersion ==
    /\ verResult = "none"
    /\ verResult' = IF isValidVersion(VersionString(ver)) THEN "compatible"
                    ELSE "incompatible"
    /\ UNCHANGED <<tunnel, fetchCalls, lastResp, lastReq, lastOp, prev, createdOk, ver>>

NextVersion == checkVersion

SpecVersion == InitVersion /\ [][NextVersion]_vars

(***************************************************************************)
(* Properties                                                              *)
(***************************************************************************)
\* the step just taken is a call of op
Called(op) == lastOp'.op = op

\* the last operation issued a request
Requested == lastReq.kind # "none"

\* headers at or above 0.6.0, and headers absent or below it
HeadersCompatible == {VersionMin, VersionNew}
HeadersRejected == {Undef, VersionOld}

\* a response whose parsed body Lokal.request hands back
Delivered(resp) == resp.connected /\ resp.version \in HeadersCompatible /\ resp.ok

\* a delivered response that indicates success and lists a result
Successful(resp) ==
    Delivered(resp) /\ resp.body.success /\ Len(resp.body.data) > 0

\* a successful response whose first entry carries a port
CarriesPort(resp) ==
    /\ Successful(resp)
    /\ resp.body.data[1].address_public # Undef
    /\ \E i \in 1..Len(resp.body.data[1].address_public) :
          resp.body.data[1].address_public[i] = ":"

\* non-HTTP handle with a non-empty stored public address without ':'
Pending(t) ==
    /\ t.tunnel_type # "HTTP"
    /\ t.address_public # Undef
    /\ t.address_public # <<>>
    /\ \A i \in 1..Len(t.address_public) : t.address_public[i] # ":"

Unset(address) == address = Undef \/ address = <<>>

\* C1: create() on a handle whose address_mdns and address_public are both
\* unset or empty fails with the precondition error and issues no request,
\* whatever setters were called before.
C1_CreateRefusedWithoutRequest ==
    [][(Called("create") /\ Unset(tunnel.address_mdns) /\ Unset(tunnel.address_public))
        => /\ lastOp'.outcome = "throw"
           /\ lastOp'.error = ErrNoAddress
           /\ fetchCalls' = fetchCalls
           /\ lastReq' = NoReq
           /\ tunnel' = tunnel]_vars

C1_Witness ==
    /\ lastOp.op = "create"
    /\ lastOp.error = ErrNoAddress
    /\ tunnel.address_public = <<>>
    /\ tunnel.address_mdns = <<>>
    /\ tunnel.tunnel_type = "TCP"
    /\ tunnel.name = <<"n">>
    /\ fetchCalls = 0

\* C2 as claimed: on every pending non-HTTP handle getPublicAddress() issues
\* exactly one GET to /api/tunnel/info/{id} and then fails with the "not yet
\* assigned" error, whatever the GET returned.
C2_Original ==
    [][(Called("getPublicAddress") /\ Pending(tunnel))
        => /\ fetchCalls' = fetchCalls + 1
           /\ lastReq'.method = "GET"
           /\ lastReq'.endpoint = InfoEndpoint(tunnel.id)
           /\ lastOp'.outcome = "throw"
           /\ lastOp'.error = ErrNotAssigned]_vars

\* C2 as amended: on a pending non-HTTP handle getPublicAddress() never
\* returns an address.  Without an id it issues no request and fails with
\* "Tunnel ID is not set".  With an id it issues exactly one GET to
\* /api/tunnel/info/{id} and fails: with the "not yet assigned" error exactly
\* when the refresh succeeded with an address carrying a port, and otherwise
\* with the refresh's own error.
C2_RefreshThenFail ==
    [][(Called("getPublicAddress") /\ Pending(tunnel))
        => /\ lastOp'.outcome = "throw"
           /\ IF tunnel.id = NoId
              THEN /\ fetchCalls' = fetchCalls
                   /\ lastReq' = NoReq
                   /\ lastOp'.error = ErrNoId
              ELSE /\ fetchCalls' = fetchCalls + 1
                   /\ lastReq'.method = "GET"
                   /\ lastReq'.endpoint = InfoEndpoint(tunnel.id)
                   /\ lastOp'.error =
                        IF ~lastResp'.connected THEN TypeError
                        ELSE IF lastResp'.version \in HeadersRejected THEN ErrVersion
                        ELSE IF ~lastResp'.ok
                        THEN (IF lastResp'.body.message = NoMessage THEN ErrGeneric
                              ELSE lastResp'.body.message)
                        ELSE IF ~Successful(lastResp') THEN ErrNoInfo
                        ELSE IF lastResp'.body.data[1].address_public = Undef
                        THEN TypeError
                        ELSE IF ~CarriesPort(lastResp') THEN ErrNoPort
                        ELSE ErrNotAssigned]_vars

C2_Witness ==
    /\ lastOp.op = "getPublicAddress"
    /\ lastOp.error = ErrNoPort
    /\ lastReq.method = "GET"
    /\ lastReq.endpoint = InfoEndpoint("abc")
    /\ Pending(tunnel)
    /\ fetchCalls = 2

\* C3: a received response whose Lokal-Server-Version header is absent or
\* below 0.6.0 makes Lokal.request fail with the version error whatever the
\* status and body, and create() and the refresh fail with that error too.
C3_VersionGate ==
    (Requested /\ lastResp.connected /\ lastResp.version \in HeadersRejected)
        => /\ lastReq.kind = "throw"
           /\ lastReq.error = ErrVersion
           /\ lastReq.steps = <<"fetch", "version">>
           /\ lastOp.outcome = "throw"
           /\ lastOp.error = ErrVersion

C3_Witness ==
    /\ lastOp.op = "create"
    /\ lastOp.error = ErrVersion
    /\ lastResp.version = Undef
    /\ lastResp.ok
    /\ lastResp.body.success
    /\ Len(lastResp.body.data) = 1

\* C4: isValidVersion reports a triple of non-negative integers compatible
\* exactly when it is lexicographically at or above (0, 6, 0).
MinTriple == <<0, 6, 0>>

AtLeast(t, m) ==
    \/ t[1] > m[1]
    \/ t[1] = m[1] /\ t[2] > m[2]
    \/ t[1] = m[1] /\ t[2] = m[2] /\ t[3] >= m[3]

C4_VersionOrder ==
    verResult # "none" => (verResult = "compatible" <=> AtLeast(ver, MinTriple))

C4_Witness ==
    /\ verResult = "compatible"
    /\ ver = MinTriple

\* C5: a create() that passes its precondition and gets success with a
\* non-empty result list ends with id, address_public and address_mdns equal
\* to the first entry's and every other field as it was; a delivered response
\* without success or with an empty list makes create() fail.
C5_CreateAdoptsFirstEntry ==
    [][(Called("create") /\ ~(Unset(tunnel.address_mdns) /\ Unset(tunnel.address_public)))
        => /\ Successful(lastResp')
                => /\ lastOp'.outcome = "return"
                   /\ tunnel'.id = lastResp'.body.data[1].id
                   /\ tunnel'.address_public = lastResp'.body.data[1].address_public
                   /\ tunnel'.address_mdns = lastResp'.body.data[1].address_mdns
                   /\ tunnel'.name = tunnel.name
                   /\ tunnel'.tunnel_type = tunnel.tunnel_type
                   /\ tunnel'.local_address = tunnel.local_address
                   /\ tunnel'.inspect = tunnel.inspect
                   /\ tunnel'.options = tunnel.options
           /\ (Delivered(lastResp') /\ ~Successful(lastResp'))
                => lastOp'.outcome = "throw"]_vars

C5_Witness ==
    /\ lastOp.op = "create"
    /\ lastOp.outcome = "return"
    /\ Len(lastResp.body.data) = 2
    /\ tunnel.id = "abc"
    /\ tunnel.address_public = HostWithPort
    /\ tunnel.address_mdns = LanName
    /\ tunnel.name = <<"n">>
    /\ tunnel.tunnel_type = "UDP"

\* C6 as claimed: for every s ending with ".local", setLANAddress(s) stores s
\* without its trailing ".local" and a directly following getLANAddress()
\* returns s.
C6_Original ==
    [][(lastOp.op = "setLANAddress" /\ EndsWith(lastOp.arg, DotLocal)
            /\ Called("getLANAddress"))
        => /\ tunnel.address_mdns \o DotLocal = lastOp.arg
           /\ lastOp'.outcome = "return"
           /\ lastOp'.value = lastOp.arg]_vars

\* C6 as amended: for every s ending with ".local", setLANAddress(s) stores s
\* without its trailing ".local"; a directly following getLANAddress()
\* returns s when the stored name is non-empty and does not itself end with
\* ".local", fails with "LAN address is not being set" when the stored name is
\* empty (s = ".local"), and returns the stored name when that still ends with
\* ".local" (s = "x.local.local" gives "x.local").
C6_StripThenAppend ==
    [][(lastOp.op = "setLANAddress" /\ EndsWith(lastOp.arg, DotLocal)
            /\ Called("getLANAddress"))
        => /\ tunnel.address_mdns \o DotLocal = lastOp.arg
           /\ IF tunnel.address_mdns = <<>>
              THEN lastOp'.outcome = "throw" /\ lastOp'.error = ErrNoLAN
              ELSE /\ lastOp'.outcome = "return"
                   /\ lastOp'.value = IF EndsWith(tunnel.address_mdns, DotLocal)
                                      THEN tunnel.address_mdns
                                      ELSE lastOp.arg]_vars

C6_Witness ==
    /\ lastOp.op = "getLANAddress"
    /\ lastOp.outcome = "return"
    /\ prev.op = "setLANAddress"
    /\ EndsWith(prev.arg, DotLocal)
    /\ lastOp.value = prev.arg
    /\ tunnel.address_mdns \o DotLocal = prev.arg

\* C7 as claimed: no getter returns an address unless a create() on the handle
\* has completed successfully before.
C7_Original ==
    (lastOp.op \in {"getLANAddress", "getPublicAddress"} /\ lastOp.outcome = "return")
        => createdOk

\* C7 as amended: a getter returns an address only while its address field is
\* non-empty, and that field becomes non-empty only by a successful create() or
\* by its own setter (setLANAddress, setPublicAddress); on a fresh handle both
\* getters fail, and a getter can succeed before any create().
C7_GetterNeedsStoredAddress ==
    [][/\ (Called("getLANAddress") /\ lastOp'.outcome = "return")
            => ~Unset(tunnel.address_mdns)
       /\ (Called("getPublicAddress") /\ lastOp'.outcome = "return")
            => ~Unset(tunnel.address_public)
       /\ (Unset(tunnel.address_mdns) /\ ~Unset(tunnel'.address_mdns))
            => \/ Called("create") /\ lastOp'.outcome = "return"
               \/ Called("setLANAddress")
       /\ (Unset(tunnel.address_public) /\ ~Unset(tunnel'.address_public))
            => \/ Called("create") /\ lastOp'.outcome = "return"
               \/ Called("setPublicAddress")]_vars

C7_Witness ==
    /\ lastOp.op = "getLANAddress"
    /\ lastOp.outcome = "return"
    /\ lastOp.value = LanName \o DotLocal
    /\ ~createdOk
    /\ fetchCalls = 0

\* C8: when the transport fails to connect, Lokal.request raises nothing and
\* returns no result, for either endpoint, without the version check, the body
\* parse or the status check.
C8_TransportFailureReturnsNothing ==
    (Requested /\ ~lastResp.connected)
        => /\ lastReq.kind = "undefined"
           /\ lastReq.error = NoError
           /\ lastReq.steps = <<"fetch">>

C8_Witness ==
    /\ Requested
    /\ ~lastResp.connected
    /\ lastReq.kind = "undefined"
    /\ lastReq.method = "GET"
    /\ lastReq.endpoint = InfoEndpoint("abc")

\* C9: on a pending non-HTTP handle with an id, a refresh that succeeds with a
\* first entry whose address_public contains ':' stores that address, and the
\* next getPublicAddress() returns it without a request; a refresh that fails
\* or returns an address without ':' leaves the stored address unchanged and
\* the handle pending.
C9_RefreshStoresPort ==
    [][/\ (Called("getPublicAddress") /\ Pending(tunnel) /\ tunnel.id # NoId)
            => IF CarriesPort(lastResp')
               THEN tunnel' = [tunnel EXCEPT !.address_public =
                                   lastResp'.body.data[1].address_public]
               ELSE tunnel' = tunnel /\ Pending(tunnel')
       /\ (lastOp.op = "getPublicAddress" /\ Requested /\ CarriesPort(lastResp)
             /\ Called("getPublicAddress"))
            => /\ lastOp'.outcome = "return"
               /\ lastOp'.value = lastResp.body.data[1].address_public
               /\ fetchCalls' = fetchCalls
               /\ lastReq' = NoReq]_vars

C9_Witness ==
    /\ lastOp.op = "getPublicAddress"
    /\ lastOp.outcome = "return"
    /\ lastOp.value = HostWithPort
    /\ prev.op = "getPublicAddress"
    /\ prev.error = ErrNotAssigned
    /\ tunnel.tunnel_type # "HTTP"

\* C10: a create() that fails, for whatever reason, leaves every field of the
\* handle as it was; id stays empty until a create() succeeds.
C10_FailedCreateChangesNothing ==
    [][/\ (Called("create") /\ lastOp'.outcome = "throw") => tunnel' = tunnel
       /\ ~createdOk' => tunnel'.id = NoId]_vars

C10_Witness ==
    /\ lastOp.op = "create"
    /\ lastOp.outcome = "throw"
    /\ lastOp.error = ErrCreate
    /\ lastReq.kind = "data"
    /\ Len(lastReq.data.data) = 1
    /\ tunnel.address_public = HostNoPort
    /\ tunnel.id = NoId

====
